---- MODULE Spec2Model ----
(***************************************************************************)
(* Model of the pincho-go client (src/client.go): the retry-with-backoff   *)
(* request pipeline, the error classification that drives it, and the      *)
(* client's rate-limit snapshot.                                           *)
(*                                                                         *)
(* Go's int (on a 64-bit platform), int64 and time.Duration are 64-bit     *)
(* two's complement values.  They are kept at that width as words of eight *)
(* base-256 limbs, least significant limb first, so that the wrap-around   *)
(* of `<<` and `*` in the backoff computation is part of the model.        *)
(***************************************************************************)
EXTENDS Integers, Sequences, FiniteSets, TLC

(***************************************************************************)
(* Bounds of the model                                                     *)
(***************************************************************************)
\* Client.MaxRetries ranges over 0..SmallRetries and the one large value
\* MaxRetriesBound
SmallRetries == 4
MaxRetriesBound == 36

\* calls made in a row by one caller
MaxCalls == 2

\* largest MaxRetries of a client used for several calls in a row
SeqRetries == 1

\* largest MaxRetries of the client whose calls are followed to their end
FairRetries == 2

\* largest MaxRetries of the client shared by two goroutines
ConcRetries == 1

\* longest list of tags passed to Send
MaxTags == 3

\* longest list of different valid tags passed to Send
MaxDistinctTags == 11

\* longest list of options passed to NewClient
MaxOptions == 2

\* largest MaxRetries of the client whose request bodies are examined
BodyRetries == 1

\* the largest MaxRetries a caller assigns to the exported field; the
\* smallest is -1
FieldRetries == 1

(***************************************************************************)
(* 64-bit integer arithmetic (Go int / int64 / time.Duration)              *)
(***************************************************************************)
Limbs == 1..8

Zero64 == << 0, 0, 0, 0, 0, 0, 0, 0 >>

\* the word of a small non-negative literal (n < 2^31)
W(n) ==
  << n % 256, (n \div 256) % 256, (n \div 65536) % 256,
     (n \div 16777216) % 256, 0, 0, 0, 0 >>

\* sign bit of a word: x < 0
IsNeg(x) == x[8] >= 128

RECURSIVE ULess(_, _, _)
\* unsigned x < y, decided from limb i downwards
ULess(x, y, i) ==
  IF i = 0 THEN FALSE
  ELSE IF x[i] # y[i] THEN x[i] < y[i]
  ELSE ULess(x, y, i - 1)

\* signed x < y
Less64(x, y) ==
  IF IsNeg(x) # IsNeg(y) THEN IsNeg(x) ELSE ULess(x, y, 8)

\* signed x > y
Greater64(x, y) == Less64(y, x)

RECURSIVE AddLimbs(_, _, _, _)
AddLimbs(x, y, i, carry) ==
  IF i > 8 THEN << >>
  ELSE LET s == x[i] + y[i] + carry
       IN  << s % 256 >> \o AddLimbs(x, y, i + 1, s \div 256)

\* x + y, wrapping at 64 bits (the operands are evaluated once)
Add64(x, y) == CHOOSE r \in { AddLimbs(a, b, 1, 0) : a \in {x}, b \in {y} } : TRUE

RECURSIVE ColSum(_, _, _, _)
\* sum of the limb products x[i] * y[k + 1 - i] for i in 1..j
ColSum(x, y, k, j) ==
  IF j = 0 THEN 0 ELSE x[j] * y[k + 1 - j] + ColSum(x, y, k, j - 1)

RECURSIVE MulLimbs(_, _, _, _)
MulLimbs(x, y, k, carry) ==
  IF k > 8 THEN << >>
  ELSE LET s == ColSum(x, y, k, k) + carry
       IN  << s % 256 >> \o MulLimbs(x, y, k + 1, s \div 256)

\* x * y, wrapping at 64 bits (the operands are evaluated once)
Mul64(x, y) == CHOOSE r \in { MulLimbs(a, b, 1, 0) : a \in {x}, b \in {y} } : TRUE

\* -x, wrapping at 64 bits
Neg64(x) == Add64([i \in Limbs |-> 255 - x[i]], W(1))

\* 1 << uint(n) on a 64-bit operand: the bit is shifted out for n >= 64
Shl1(n) ==
  IF n >= 64 THEN Zero64
  ELSE [i \in Limbs |-> IF i = (n \div 8) + 1 THEN 2 ^ (n % 8) ELSE 0]

(***************************************************************************)
(* Program constants                                                       *)
(***************************************************************************)
\* time.Second, in nanoseconds
Second == W(1000000000)

\* MaxBackoff = 30 * time.Second
MaxBackoff == Mul64(W(30), Second)

(***************************************************************************)
(* The header values the server sends in the model                         *)
(***************************************************************************)
\* Header values, as character sequences; << >> is a header that is absent.
NoHeader == << >>

RetryAfterValues ==
  { NoHeader, << "2" >>, << "6", "0" >>, << "0" >>, << "-", "5" >>,
    << "a", "b", "c" >>,
    << "9", "2", "2", "3", "3", "7", "2", "0", "3", "7" >> }

\* (RateLimit-Limit, RateLimit-Remaining, RateLimit-Reset) of a response
RateLimitHeaders ==
  { << NoHeader, NoHeader, NoHeader >>,
    << << "1", "0", "0" >>, << "9", "9" >>, << "1", "7", "0", "0" >> >>,
    << << "5", "0" >>, NoHeader, NoHeader >>,
    << << "0" >>, NoHeader, NoHeader >>,
    << NoHeader, NoHeader, << "0" >> >>,
    << << "x" >>, << "-", "1" >>, << "s", "o", "o", "n" >> >> }

\* every header value of the model
HeaderValues ==
  RetryAfterValues \cup { rl[i] : rl \in RateLimitHeaders, i \in 1..3 }

(***************************************************************************)
(* strconv.Atoi on a header value, given as a sequence of characters       *)
(***************************************************************************)
DigitChars == << "0", "1", "2", "3", "4", "5", "6", "7", "8", "9" >>

IsDigit(ch) == \E d \in 1..10 : DigitChars[d] = ch

DigitOf(ch) == (CHOOSE d \in 1..10 : DigitChars[d] = ch) - 1

RECURSIVE ParseDigits(_, _)
\* the value of a non-empty run of decimal digits, accumulated left to right
ParseDigits(s, acc) ==
  IF s = << >> THEN acc
  ELSE ParseDigits(Tail(s), Add64(Mul64(acc, W(10)), W(DigitOf(Head(s)))))

\* strconv.Atoi: an optional sign followed by one or more digits.  Every
\* header of the model is shorter than 19 characters, the length up to
\* which Atoi cannot go out of range.
Atoi(s) ==
  LET signed == s # << >> /\ Head(s) \in {"+", "-"}
      digits == IF signed THEN Tail(s) ELSE s
  IN  IF digits = << >> \/ \E i \in 1..Len(digits) : ~IsDigit(digits[i])
      THEN [ok |-> FALSE, val |-> Zero64]
      ELSE [ok |-> TRUE,
            val |-> IF signed /\ Head(s) = "-"
                    THEN Neg64(ParseDigits(digits, Zero64))
                    ELSE ParseDigits(digits, Zero64)]

\* Atoi of every header value of the model, computed once
Parsed == [h \in HeaderValues |-> Atoi(h)]

(***************************************************************************)
(* Errors (the error types used by client.go) and context errors           *)
(***************************************************************************)
\* An error value: its dynamic type, the fields StatusCode and RetryAfter,
\* and for a NetworkError the cause it wraps (Err).
MkErr(type, status, retryAfter, cause) ==
  [type |-> type, StatusCode |-> status, RetryAfter |-> retryAfter, Err |-> cause]

\* the nil error
Nil == MkErr("nil", 0, Zero64, "none")

\* ctx.Err() of a context that is done
CtxErr(reason) == MkErr(reason, 0, Zero64, "none")

CtxReasons == {"context.Canceled", "context.DeadlineExceeded"}

\* a faulty variant of IsErrorRetryable: client errors are retried as well
IsErrorRetryable_all(err) == err.type # "nil"

\* a faulty variant of IsErrorRetryable: the status code decides, not the
\* type
IsErrorRetryable_byStatus(err) ==
  /\ err.type \in {"ServerError", "NetworkError", "RateLimitError", "AuthError",
                   "ValidationError", "Error"}
  /\ (err.StatusCode = 0 \/ err.StatusCode >= 500)

\* IsErrorRetryable: the IsRetryable() of the error's type; false for an
\* error that is none of the library's types (a context error)
IsErrorRetryable(err) ==
  CASE err.type = "ServerError" -> TRUE
    [] err.type = "NetworkError" -> TRUE
    [] err.type = "RateLimitError" -> TRUE
    [] err.type = "AuthError" -> FALSE
    [] err.type = "ValidationError" -> FALSE
    [] err.type = "Error" -> FALSE
    [] OTHER -> FALSE

(***************************************************************************)
(* Header parsing                                                          *)
(***************************************************************************)
\* parseRetryAfter: 0 for a missing, non-numeric or negative header
parseRetryAfter(header) ==
  IF header = << >> THEN Zero64
  ELSE LET r == Parsed[header]
       IN  IF ~r.ok \/ IsNeg(r.val) THEN Zero64 ELSE r.val

\* parseIntHeader: 0 for a missing, non-numeric or negative header
parseIntHeader(header) ==
  IF header = << >> THEN Zero64
  ELSE LET r == Parsed[header]
       IN  IF ~r.ok \/ IsNeg(r.val) THEN Zero64 ELSE r.val

\* time.Time{}: the zero time, the only time for which IsZero() holds
ZeroTime == [zero |-> TRUE, unix |-> Zero64]

\* parseUnixTimestamp: the zero time for a missing, non-numeric or negative
\* header, time.Unix(timestamp, 0) otherwise (never the zero time, which is
\* the year 1 and lies before the epoch)
parseUnixTimestamp(header) ==
  IF header = << >> THEN ZeroTime
  ELSE LET r == Parsed[header]
       IN  IF ~r.ok \/ IsNeg(r.val) THEN ZeroTime
           ELSE [zero |-> FALSE, unix |-> r.val]

\* Client.LastRateLimit == nil
NoRateLimit ==
  [nil |-> TRUE, Limit |-> Zero64, Remaining |-> Zero64, Reset |-> ZeroTime]

\* a faulty variant of parseRateLimitHeaders: a response without usable
\* headers clears the snapshot
parseRateLimitHeaders_clear(last, resp) ==
  LET limit == parseIntHeader(resp.Limit)
      remaining == parseIntHeader(resp.Remaining)
      reset == parseUnixTimestamp(resp.Reset)
  IN  IF Greater64(limit, Zero64) \/ Greater64(remaining, Zero64) \/ ~reset.zero
      THEN [nil |-> FALSE, Limit |-> limit, Remaining |-> remaining, Reset |-> reset]
      ELSE NoRateLimit

\* parseRateLimitHeaders: the new value of Client.LastRateLimit
parseRateLimitHeaders(last, resp) ==
  LET limit == parseIntHeader(resp.Limit)
      remaining == parseIntHeader(resp.Remaining)
      reset == parseUnixTimestamp(resp.Reset)
  IN  IF Greater64(limit, Zero64) \/ Greater64(remaining, Zero64) \/ ~reset.zero
      THEN [nil |-> FALSE, Limit |-> limit, Remaining |-> remaining, Reset |-> reset]
      ELSE last

(***************************************************************************)
(* One HTTP attempt: the closure passed to retryWithBackoff                *)
(***************************************************************************)
\* What the transport hands back for one attempt: the request could not be
\* created, Do failed, the body could not be read, or a response arrived.
MkOutcome(t, status, retryAfter, rl, json) ==
  [t |-> t, status |-> status, RetryAfter |-> retryAfter,
   Limit |-> rl[1], Remaining |-> rl[2], Reset |-> rl[3], json |-> json]

NoRL == << NoHeader, NoHeader, NoHeader >>

Failures ==
  { MkOutcome(t, 0, NoHeader, NoRL, FALSE) : t \in {"createFail", "doFail", "readFail"} }

Responses ==
  { MkOutcome("response", st, NoHeader, rl, js) :
      st \in {200, 304}, rl \in RateLimitHeaders, js \in BOOLEAN }
  \cup { MkOutcome("response", 429, ra, NoRL, TRUE) : ra \in RetryAfterValues }
  \cup { MkOutcome("response", st, ra, rl, TRUE) :
           st \in {429, 500, 503}, ra \in {NoHeader, << "2" >>},
           rl \in {NoRL, << << "5", "0" >>, NoHeader, NoHeader >>} }
  \cup { MkOutcome("response", st, NoHeader, NoRL, js) :
           st \in {400, 401, 403, 404}, js \in BOOLEAN }

\* Do on a context that is done: the transport gives up with the context's
\* error as the cause
CtxFailure(reason) == MkOutcome(reason, 0, NoHeader, NoRL, FALSE)

\* a faulty variant of Classify: 403 falls through to the default case
Classify_forbidden(status, retryAfterHeader) ==
  CASE status = 400 -> MkErr("ValidationError", status, Zero64, "none")
    [] status = 401 -> MkErr("AuthError", status, Zero64, "none")
    [] status = 429 ->
         MkErr("RateLimitError", status, parseRetryAfter(retryAfterHeader), "none")
    [] OTHER -> IF status >= 500
                THEN MkErr("ServerError", status, Zero64, "none")
                ELSE MkErr("Error", status, Zero64, "none")

\* the switch on resp.StatusCode of a response with status >= 400
Classify(status, retryAfterHeader) ==
  CASE status = 400 -> MkErr("ValidationError", status, Zero64, "none")
    [] status \in {401, 403} -> MkErr("AuthError", status, Zero64, "none")
    [] status = 429 ->
         MkErr("RateLimitError", status, parseRetryAfter(retryAfterHeader), "none")
    [] OTHER -> IF status >= 500
                THEN MkErr("ServerError", status, Zero64, "none")
                ELSE MkErr("Error", status, Zero64, "none")

\* a faulty variant of OperationErr: a body that does not decode fails the
\* attempt, after its headers have been applied
OperationErr_strict(o) ==
  CASE o.t = "createFail" -> MkErr("NetworkError", 0, Zero64, "create")
    [] o.t = "doFail" -> MkErr("NetworkError", 0, Zero64, "transport")
    [] o.t \in CtxReasons -> MkErr("NetworkError", 0, Zero64, o.t)
    [] o.t = "readFail" -> MkErr("NetworkError", 0, Zero64, "read")
    [] OTHER -> IF o.status >= 400 THEN Classify(o.status, o.RetryAfter)
                ELSE IF ~o.json THEN MkErr("NetworkError", 0, Zero64, "read")
                ELSE Nil

\* the error the closure returns for an outcome
OperationErr(o) ==
  CASE o.t = "createFail" -> MkErr("NetworkError", 0, Zero64, "create")
    [] o.t = "doFail" -> MkErr("NetworkError", 0, Zero64, "transport")
    [] o.t \in CtxReasons -> MkErr("NetworkError", 0, Zero64, o.t)
    [] o.t = "readFail" -> MkErr("NetworkError", 0, Zero64, "read")
    [] OTHER -> IF o.status >= 400 THEN Classify(o.status, o.RetryAfter) ELSE Nil

\* a faulty variant of OperationRateLimit: the headers of every response are
\* applied, whatever its status
OperationRateLimit_always(last, o) ==
  IF o.t = "response" THEN parseRateLimitHeaders(last, o) ELSE last

\* a faulty variant of OperationRateLimit: the headers are applied only once
\* the body has been decoded
OperationRateLimit_decoded(last, o) ==
  IF o.t = "response" /\ o.status < 400 /\ o.json THEN parseRateLimitHeaders(last, o) ELSE last

\* Client.LastRateLimit after the closure has run
OperationRateLimit(last, o) ==
  IF o.t = "response" /\ o.status < 400 THEN parseRateLimitHeaders(last, o) ELSE last

\* the closure executes the assignment c.LastRateLimit = &RateLimitInfo{...}
StoresRateLimit(o) == ~OperationRateLimit(NoRateLimit, o).nil

\* The answers the transport can give to an attempt. "all": every kind of
\* failure and of response; "few": one failure, one retryable status, and
\* successes with different rate-limit headers.
Outcomes(s) ==
  IF s = "all" THEN Failures \cup Responses
  ELSE { MkOutcome("doFail", 0, NoHeader, NoRL, FALSE),
         MkOutcome("response", 503, NoHeader, NoRL, FALSE),
         MkOutcome("response", 200, NoHeader, NoRL, TRUE),
         MkOutcome("response", 200, NoHeader,
                   << << "1", "0", "0" >>, << "9", "9" >>, << "1", "7", "0", "0" >> >>, TRUE),
         MkOutcome("response", 200, NoHeader, << << "5", "0" >>, NoHeader, NoHeader >>, TRUE) }

(***************************************************************************)
(* retryWithBackoff: the pieces of the loop body                           *)
(***************************************************************************)
\* a faulty variant of RetryLimit: the limit is taken one too high
RetryLimit_plus(maxRetries) == maxRetries + 1

\* c.MaxRetries as the two checks of the loop read it
RetryLimit(maxRetries) == maxRetries

\* the loop condition: attempt <= c.MaxRetries
LoopCond(attempt, maxRetries) == attempt <= RetryLimit(maxRetries)

\* "we've exhausted all attempts": attempt == c.MaxRetries
Exhausted(attempt, maxRetries) == attempt = RetryLimit(maxRetries)

\* a faulty variant of SuccessResult: the error of an earlier attempt leaks out
SuccessResult_last(last) == last

\* what the loop returns when operation() returned nil
SuccessResult(last) == Nil

\* a faulty variant of ExhaustedResult: the caller gets a summary error instead
ExhaustedResult_summary(err) == MkErr("Error", 0, Zero64, "none")

\* what the loop returns once the attempts are exhausted: the error of the
\* attempt that just failed
ExhaustedResult(err) == err

\* if backoff > MaxBackoff { backoff = MaxBackoff }
Cap(d) ==
  CHOOSE r \in { IF Greater64(v, MaxBackoff) THEN MaxBackoff ELSE v : v \in {d} } : TRUE

\* the backoff duration computed after a retryable error of attempt `attempt`
Backoff(err, attempt) ==
  IF err.type = "RateLimitError"
  THEN IF Greater64(err.RetryAfter, Zero64)
       THEN Cap(Mul64(err.RetryAfter, Second))
       ELSE Cap(Mul64(Mul64(W(5), Shl1(attempt)), Second))
  ELSE Cap(Mul64(Shl1(attempt), Second))

\* the channel of time.After(d) can deliver at once when d <= 0
TimerReady(d) == ~Greater64(d, Zero64)

\* The select on ctx.Done() and time.After(backoff) when it is entered: the
\* cases that can proceed; Go picks any one of them, and blocks ("none")
\* when there is none.
SelectPoll(ctxDone, timerReady) ==
  LET ready == (IF ctxDone THEN {"ctx"} ELSE {}) \cup (IF timerReady THEN {"timer"} ELSE {})
  IN  IF ready = {} THEN {"none"} ELSE ready

\* a faulty variant of SelectOnCancel: the blocked select has no ctx.Done() case
SelectOnCancel_blind(w) == w

\* a faulty variant of SelectOnCancel: the cancellation tears the timer down
\* and nothing wakes the select any more
SelectOnCancel_lost(w) == IF w = "none" THEN "lost" ELSE w

\* a blocked select is woken by the first case that becomes ready; here the
\* context's Done channel is closed
SelectOnCancel(w) == IF w = "none" THEN "ctx" ELSE w

(***************************************************************************)
(* Tags: NormalizeTags                                                     *)
(***************************************************************************)
\* the tags callers pass: upper case, padded, repeated, empty, blank,
\* with a character outside the pattern, with digits and punctuation
TagChoices ==
  { << "P", "r", "o", "d" >>, << "p", "r", "o", "d" >>, << " ", "p", "r", "o", "d", "\t" >>,
    << "a", "!" >>, << >>, << " " >>, << "b", "_", "1", "-" >> }

\* a []string: nil, or a list (the empty one included) of tags, each a
\* sequence of characters
NilTags == [nil |-> TRUE, list |-> << >>]

TagList(list) == [nil |-> FALSE, list |-> list]

LowerLetters ==
  { "a", "b", "c", "d", "e", "f", "g", "h", "i", "j", "k", "l", "m",
    "n", "o", "p", "q", "r", "s", "t", "u", "v", "w", "x", "y", "z" }

\* the upper-case letters used by the tags of the model, with their lower case
UpperToLower == [u \in {"A", "B", "P"} |-> CASE u = "A" -> "a" [] u = "B" -> "b" [] OTHER -> "p"]

WhiteSpace == { " ", "\t" }

\* strings.TrimSpace
RECURSIVE TrimLeft(_)
TrimLeft(s) == IF s # << >> /\ Head(s) \in WhiteSpace THEN TrimLeft(Tail(s)) ELSE s

RECURSIVE TrimRight(_)
TrimRight(s) ==
  IF s # << >> /\ s[Len(s)] \in WhiteSpace THEN TrimRight(SubSeq(s, 1, Len(s) - 1)) ELSE s

TrimSpace(s) == TrimRight(TrimLeft(s))

\* strings.ToLower
ToLower(s) == [i \in 1..Len(s) |-> IF s[i] \in DOMAIN UpperToLower THEN UpperToLower[s[i]] ELSE s[i]]

\* tagPattern.MatchString: ^[a-z0-9_-]+$
MatchTagPattern(s) ==
  /\ s # << >>
  /\ \A i \in 1..Len(s) : s[i] \in LowerLetters \/ IsDigit(s[i]) \/ s[i] \in {"_", "-"}

\* a faulty variant of KeepTag: a tag already seen is appended again
KeepTag_again(normalizedTag, normalized) ==
  /\ normalizedTag # << >>
  /\ MatchTagPattern(normalizedTag)

\* the three `continue` checks of the loop body: empty, seen, invalid
KeepTag(normalizedTag, normalized) ==
  /\ normalizedTag # << >>
  /\ ~\E i \in 1..Len(normalized) : normalized[i] = normalizedTag
  /\ MatchTagPattern(normalizedTag)

\* the loop of NormalizeTags over the remaining tags
RECURSIVE NormalizeLoop(_, _)
NormalizeLoop(tags, normalized) ==
  IF tags = << >> THEN normalized
  ELSE LET normalizedTag == ToLower(TrimSpace(Head(tags)))
       IN  NormalizeLoop(Tail(tags),
                         IF KeepTag(normalizedTag, normalized)
                         THEN Append(normalized, normalizedTag)
                         ELSE normalized)

\* the lists of at most n tags
RECURSIVE TagLists(_)
TagLists(n) ==
  IF n = 0 THEN { << >> }
  ELSE LET shorter == TagLists(n - 1)
       IN  shorter \cup { Append(l, t) : l \in { x \in shorter : Len(x) = n - 1 }, t \in TagChoices }

\* the n-th of a series of tags that differ from one another: "t01", "t02", ...
DistinctTag(n) == << "t", DigitChars[(n \div 10) + 1], DigitChars[(n % 10) + 1] >>

\* the lists of tags a caller passes: nil, the short lists of TagChoices,
\* and lists of up to MaxDistinctTags different valid tags
TagInputs ==
  { NilTags } \cup { TagList(l) : l \in TagLists(MaxTags) }
    \cup { TagList([i \in 1..n |-> DistinctTag(i)]) : n \in 1..MaxDistinctTags }

\* a faulty variant of NormalizeTags: the first tag kept is lost
NormalizeTags_short(tags) ==
  IF tags.nil \/ Len(tags.list) = 0
  THEN NilTags
  ELSE LET normalized == NormalizeLoop(tags.list, << >>)
       IN  IF Len(normalized) <= 1 THEN NilTags ELSE TagList(Tail(normalized))

\* NormalizeTags(tags): nil for nil, for an empty list and when no tag is kept
NormalizeTags(tags) ==
  IF tags.nil \/ Len(tags.list) = 0
  THEN NilTags
  ELSE LET normalized == NormalizeLoop(tags.list, << >>)
       IN  IF Len(normalized) = 0 THEN NilTags ELSE TagList(normalized)

(***************************************************************************)
(* Options, encryption and the request body                                *)
(***************************************************************************)
Version == "1.0.0-alpha.7"

\* *SendOptions / *NotifAIOptions: a nil pointer, or the fields
MkOptions(title, message, type, tags, imageURL, actionURL, password, text) ==
  [nil |-> FALSE, Title |-> title, Message |-> message, Type |-> type, Tags |-> tags,
   ImageURL |-> imageURL, ActionURL |-> actionURL, EncryptionPassword |-> password,
   Text |-> text]

NilOptions ==
  [nil |-> TRUE, Title |-> "", Message |-> "", Type |-> "", Tags |-> NilTags,
   ImageURL |-> "", ActionURL |-> "", EncryptionPassword |-> "", Text |-> ""]

\* DeriveEncryptionKey: the key is a function of the password alone
NoKey == [derived |-> FALSE, password |-> ""]

DeriveEncryptionKey(password) == [derived |-> TRUE, password |-> password]

NoIV == [bytes |-> ""]

\* hex encodings of the IVs rand.Read can produce
IVHexes == { "0a0b", "c3d4" }

\* GenerateIV: sixteen random bytes and their hex encoding, or an error of
\* rand.Read
IVBytes(ivHex) == [bytes |-> ivHex]

\* a value of the body: a string as given, or the output of EncryptMessage
Plain(str) == [kind |-> "plain", text |-> str, key |-> NoKey, iv |-> NoIV]

Absent == [kind |-> "absent", text |-> "", key |-> NoKey, iv |-> NoIV]

\* a faulty variant of EncryptMessage: every field gets an IV of its own
EncryptMessage_ownIV(plaintext, password, iv) ==
  [kind |-> "cipher", text |-> plaintext, key |-> DeriveEncryptionKey(password),
   iv |-> IVBytes(plaintext)]

\* EncryptMessage: AES-CBC of the padded plaintext under the derived key and
\* the IV, never empty
EncryptMessage(plaintext, password, iv) ==
  [kind |-> "cipher", text |-> plaintext, key |-> DeriveEncryptionKey(password),
   iv |-> iv]

NoBody ==
  [title |-> Absent, message |-> Absent, type |-> Absent, tags |-> NilTags,
   imageURL |-> Absent, actionURL |-> Absent, iv |-> Absent, text |-> Absent]

\* finalTitle, finalMessage, finalImageURL, finalActionURL of Send
Final(str, password, iv, always) ==
  IF password # "" /\ (always \/ str # "")
  THEN EncryptMessage(str, password, iv)
  ELSE Plain(str)

\* a field the body map gets only when its value is not empty
Optional(v) == IF v.kind = "plain" /\ v.text = "" THEN Absent ELSE v

\* a faulty variant of IVField: the body names the secret it was encrypted with
IVField_password(password, ivHex) ==
  IF password # "" THEN Plain(password) ELSE Absent

\* body["iv"] = ivHex, set when ivHex is not empty
IVField(password, ivHex) ==
  IF password # "" THEN Optional(Plain(ivHex)) ELSE Absent

\* the body map of Send, as marshalled
SendBody(options, ivHex) ==
  LET pw == options.EncryptionPassword
      iv == IVBytes(ivHex)
  IN  [title |-> Final(options.Title, pw, iv, TRUE),
       message |-> Final(options.Message, pw, iv, TRUE),
       type |-> Optional(Plain(options.Type)),
       tags |-> NormalizeTags(options.Tags),
       imageURL |-> Optional(Final(options.ImageURL, pw, iv, FALSE)),
       actionURL |-> Optional(Final(options.ActionURL, pw, iv, FALSE)),
       iv |-> IVField(pw, ivHex),
       text |-> Absent]

\* the body map of NotifAI, as marshalled
NotifAIBody(options) ==
  [NoBody EXCEPT !.text = Plain(options.Text), !.type = Optional(Plain(options.Type))]

\* a faulty variant of InvalidOptions: only the nil pointer is refused
InvalidOptions_nilOnly(a, options) == options.nil

\* the checks at the entry of Send and NotifAI
InvalidOptions(a, options) ==
  \/ options.nil
  \/ a = "Send" /\ options.Title = ""
  \/ a = "NotifAI" /\ options.Text = ""

NoRequest ==
  [URL |-> << >>, Authorization |-> << >>, UserAgent |-> << >>, ContentType |-> "",
   body |-> NoBody]

\* a faulty variant of NewRequest: the request goes out without the token
NewRequest_anon(token, url, jsonData) ==
  [URL |-> url, Authorization |-> << >>, UserAgent |-> << "pincho-go/", Version >>,
   ContentType |-> "application/json", body |-> jsonData]

\* the request the closure builds for an attempt
NewRequest(token, url, jsonData) ==
  [URL |-> url, Authorization |-> << "Bearer ", token >>,
   UserAgent |-> << "pincho-go/", Version >>,
   ContentType |-> "application/json", body |-> jsonData]

\* baseURL[len(baseURL)-5:] == "/send", for a baseURL of five characters or more
HasSendSuffix(url) ==
  /\ Len(url) >= 5
  /\ SubSeq(url, Len(url) - 4, Len(url)) = << "/", "s", "e", "n", "d" >>

\* The endpoint NotifAI derives from c.APIURL: the "/send" suffix removed,
\* a "/" added unless baseURL ends with one, then "notifai". Indexing the
\* last character of an empty baseURL is a run-time panic.
NotifAIURL(apiURL) ==
  LET baseURL == IF HasSendSuffix(apiURL) THEN SubSeq(apiURL, 1, Len(apiURL) - 5)
                 ELSE apiURL
      notifai == << "n", "o", "t", "i", "f", "a", "i" >>
  IN  IF Len(baseURL) = 0
      THEN [panic |-> TRUE, url |-> << >>]
      ELSE IF baseURL[Len(baseURL)] # "/"
      THEN [panic |-> FALSE, url |-> baseURL \o << "/" >> \o notifai]
      ELSE [panic |-> FALSE, url |-> baseURL \o notifai]

\* a faulty variant of NotifAIResponse: the response struct is handed back
\* with the error too
NotifAIResponse_partial(err) == "response"

\* the *NotifAIResponse that NotifAI returns next to err
NotifAIResponse(err) == IF err.type # "nil" THEN "nil" ELSE "response"

\* the response value a call returns next to err: Send returns none
ResponseOf(a, err) == IF a = "NotifAI" THEN NotifAIResponse(err) ELSE "none"

(***************************************************************************)
(* NewClient and its options                                               *)
(***************************************************************************)
\* URLs are sequences of characters; << >> is the empty string.
\* DefaultAPIURL = "https://api.pincho.app/send"
DefaultAPIURL ==
  << "h", "t", "t", "p", "s", ":", "/", "/", "a", "p", "i", ".", "p", "i", "n", "c",
     "h", "o", ".", "a", "p", "p", "/", "s", "e", "n", "d" >>

\* DefaultTimeout = 30 * time.Second
DefaultTimeout == Mul64(W(30), Second)

\* maxRetries := 3
DefaultMaxRetries == 3

\* an int small enough for the model's integers, from its 64-bit value
ToInt(v) == v[1] + 256 * v[2]

\* a *http.Client: nil, or a client with its Timeout field
NilHTTPClient == [nil |-> TRUE, custom |-> FALSE, Timeout |-> Zero64]

HTTPClientOf(custom, timeout) == [nil |-> FALSE, custom |-> custom, Timeout |-> timeout]

\* the options a caller passes to NewClient
MkOption(name, url, client, timeout, maxRetries) ==
  [name |-> name, url |-> url, client |-> client, timeout |-> timeout,
   maxRetries |-> maxRetries]

WithAPIURL(url) == MkOption("WithAPIURL", url, NilHTTPClient, Zero64, 0)

WithHTTPClient(client) == MkOption("WithHTTPClient", << >>, client, Zero64, 0)

WithTimeout(timeout) == MkOption("WithTimeout", << >>, NilHTTPClient, timeout, 0)

WithMaxRetries(maxRetries) == MkOption("WithMaxRetries", << >>, NilHTTPClient, Zero64, maxRetries)

\* a faulty variant of OptionPanics: a timeout of zero is let through
OptionPanics_zeroTimeout(opt) ==
  CASE opt.name = "WithAPIURL" ->
         IF opt.url = << >> THEN "pincho: API URL cannot be empty" ELSE ""
    [] opt.name = "WithHTTPClient" ->
         IF opt.client.nil THEN "pincho: HTTP client cannot be nil" ELSE ""
    [] opt.name = "WithTimeout" ->
         IF IsNeg(opt.timeout) THEN "pincho: timeout must be positive" ELSE ""
    [] OTHER ->
         IF opt.maxRetries < 0 THEN "pincho: max retries cannot be negative" ELSE ""

\* the check each option makes when NewClient applies it: the panic message,
\* "" when the option is applied
OptionPanics(opt) ==
  CASE opt.name = "WithAPIURL" ->
         IF opt.url = << >> THEN "pincho: API URL cannot be empty" ELSE ""
    [] opt.name = "WithHTTPClient" ->
         IF opt.client.nil THEN "pincho: HTTP client cannot be nil" ELSE ""
    [] opt.name = "WithTimeout" ->
         IF ~Greater64(opt.timeout, Zero64) THEN "pincho: timeout must be positive" ELSE ""
    [] OTHER ->
         IF opt.maxRetries < 0 THEN "pincho: max retries cannot be negative" ELSE ""

\* the assignment an option makes to the client
ApplyOption(client, opt) ==
  CASE opt.name = "WithAPIURL" -> [client EXCEPT !.APIURL = opt.url]
    [] opt.name = "WithHTTPClient" -> [client EXCEPT !.HTTPClient = opt.client]
    [] opt.name = "WithTimeout" -> [client EXCEPT !.HTTPClient.Timeout = opt.timeout]
    [] OTHER -> [client EXCEPT !.MaxRetries = opt.maxRetries]

\* for _, opt := range opts { opt(client) }
RECURSIVE ApplyOptions(_, _)
ApplyOptions(client, opts) ==
  IF opts = << >> THEN client
  ELSE IF OptionPanics(Head(opts)) # ""
  THEN [client EXCEPT !.panic = OptionPanics(Head(opts))]
  ELSE ApplyOptions(ApplyOption(client, Head(opts)), Tail(opts))

\* timeout := DefaultTimeout, or PINCHO_TIMEOUT seconds when it is a
\* positive number
EnvTimeout(envTimeout) ==
  IF envTimeout # NoHeader /\ Parsed[envTimeout].ok
       /\ Greater64(Parsed[envTimeout].val, Zero64)
  THEN Mul64(Parsed[envTimeout].val, Second)
  ELSE DefaultTimeout

\* maxRetries := 3, or PINCHO_MAX_RETRIES when it is a number >= 0
EnvMaxRetries(envRetries) ==
  IF envRetries # NoHeader /\ Parsed[envRetries].ok /\ ~IsNeg(Parsed[envRetries].val)
  THEN ToInt(Parsed[envRetries].val)
  ELSE DefaultMaxRetries

\* NewClient(token, opts...) in an environment: the client it returns, or
\* the message it panics with
NewClientResult(token, env, opts) ==
  LET tok == IF token = "" THEN env.PINCHO_TOKEN ELSE token
      client == [Token |-> tok, APIURL |-> DefaultAPIURL,
                 HTTPClient |-> HTTPClientOf(FALSE, EnvTimeout(env.PINCHO_TIMEOUT)),
                 MaxRetries |-> EnvMaxRetries(env.PINCHO_MAX_RETRIES),
                 panic |-> ""]
  IN  IF tok = ""
      THEN [client EXCEPT !.panic = "pincho: token is required"]
      ELSE ApplyOptions(client, opts)

\* "https://h.example/api"
CustomAPIURL ==
  << "h", "t", "t", "p", "s", ":", "/", "/", "h", ".", "e", "x", "a", "m", "p", "l",
     "e", "/", "a", "p", "i" >>

\* what the caller of NewClient passes, and the environment of the process
OptionChoices ==
  { WithAPIURL(<< >>), WithAPIURL(CustomAPIURL),
    WithHTTPClient(NilHTTPClient), WithHTTPClient(HTTPClientOf(TRUE, Zero64)),
    WithTimeout(Zero64), WithTimeout(Neg64(Second)), WithTimeout(Mul64(W(10), Second)),
    WithMaxRetries(-1), WithMaxRetries(0), WithMaxRetries(5) }

RECURSIVE OptionLists(_)
OptionLists(n) ==
  IF n = 0 THEN { << >> }
  ELSE LET shorter == OptionLists(n - 1)
       IN  shorter \cup { Append(l, o) : l \in { x \in shorter : Len(x) = n - 1 },
                                          o \in OptionChoices }

EnvChoices ==
  [ PINCHO_TOKEN : {"", "envtok"},
    PINCHO_TIMEOUT : RetryAfterValues \ { << "2" >> },
    PINCHO_MAX_RETRIES : { NoHeader, << "2" >>, << "0" >>, << "-", "5" >>, << "a", "b", "c" >> } ]

NoInputs ==
  [token |-> "", env |-> [PINCHO_TOKEN |-> "", PINCHO_TIMEOUT |-> NoHeader,
                           PINCHO_MAX_RETRIES |-> NoHeader],
   opts |-> << >>]

(***************************************************************************)
(* State                                                                   *)
(***************************************************************************)
Calls == {1, 2}

VARIABLES
  MaxRetries,     \* Client.MaxRetries
  LastRateLimit,  \* Client.LastRateLimit
  budget,         \* budget[c]: logical calls caller c may still start
  pc,             \* pc[c]: "idle", "inflight", "select", "done", or "panic" (the call faulted)
  api,            \* api[c]: "Send" or "NotifAI"
  ctx,            \* ctx[c]: "active", or the reason the context is done
  attempt,        \* attempt[c]: the loop variable of retryWithBackoff
  lastErr,        \* lastErr[c]: the local lastErr of retryWithBackoff
  backoff,        \* backoff[c]: the duration given to time.After
  wake,           \* wake[c]: the case the select proceeds with, "none" while blocked
  ret,            \* ret[c]: the error the call returned
  nAttempts,      \* nAttempts[c]: HTTP attempts started by the current call
  nWaits,         \* nWaits[c]: backoff waits entered by the current call
  lastStatus,     \* lastStatus[c]: status of the latest response, 0 if the latest attempt got none
  lastOutcome,    \* lastOutcome[c]: what the transport handed back for the latest attempt
  rlAtBegin,      \* rlAtBegin[c]: Client.LastRateLimit when the current call started
  cancelledAt,    \* cancelledAt[c]: where the call was when its context became done
  scenario,       \* the part of the environment explored: which answers the server gives
  writer,         \* the goroutine whose store to Client.LastRateLimit is the latest, 0 if none
  before,         \* the value, and its writer, that the latest store replaced
  observed,       \* observed[c]: what caller c read through GetRateLimitInfo after its call
  Token,          \* Client.Token
  APIURL,         \* Client.APIURL
  HTTPClient,     \* Client.HTTPClient
  made,           \* "none" before NewClient, "client" once it returned, else its panic
  given,          \* the arguments and the environment NewClient runs with
  options,        \* options[c]: the options the current call was given
  jsonData,       \* jsonData[c]: the marshalled body of the current call
  request,        \* request[c]: the request built for the latest attempt
  resp            \* resp[c]: the response value the call returned: "none", "nil", "response"

vars ==
  << MaxRetries, LastRateLimit, budget, pc, api, ctx, attempt, lastErr, backoff,
     wake, ret, nAttempts, nWaits, lastStatus, lastOutcome, rlAtBegin, cancelledAt,
     scenario, writer, before, observed, Token, APIURL, HTTPClient, made, given,
     options, jsonData, request, resp >>

clientVars == << MaxRetries, LastRateLimit >>

\* what no step of a call changes
fixedVars == << scenario, Token, APIURL, HTTPClient, made, given >>

\* the history of the stores to Client.LastRateLimit
raceVars == << writer, before >>

\* what only the entry of a call and its caller change
sentVars == << observed, options, jsonData >>

\* GetRateLimitInfo: the pointer held by the client
GetRateLimitInfo == LastRateLimit

(***************************************************************************)
(* Initial state: a client built by NewClient, no call started yet         *)
(***************************************************************************)
RetryChoices == (0..SmallRetries) \cup {MaxRetriesBound}

\* the caller has not read the snapshot since its call began
NotRead == [nil |-> TRUE, Limit |-> Zero64, Remaining |-> Zero64, Reset |-> ZeroTime,
            read |-> FALSE]

\* no attempt made yet
NoOutcome == MkOutcome("none", 0, NoHeader, NoRL, FALSE)

\* the callers before their first call
InitCalls ==
  /\ pc = [c \in Calls |-> "idle"]
  /\ api = [c \in Calls |-> "Send"]
  /\ ctx = [c \in Calls |-> "active"]
  /\ attempt = [c \in Calls |-> 0]
  /\ lastErr = [c \in Calls |-> Nil]
  /\ backoff = [c \in Calls |-> Zero64]
  /\ wake = [c \in Calls |-> "none"]
  /\ ret = [c \in Calls |-> Nil]
  /\ nAttempts = [c \in Calls |-> 0]
  /\ nWaits = [c \in Calls |-> 0]
  /\ lastStatus = [c \in Calls |-> 0]
  /\ lastOutcome = [c \in Calls |-> NoOutcome]
  /\ rlAtBegin = [c \in Calls |-> NoRateLimit]
  /\ cancelledAt = [c \in Calls |-> "never"]
  /\ observed = [c \in Calls |-> NotRead]
  /\ writer = 0
  /\ before = [val |-> NoRateLimit, by |-> 0]
  /\ options = [c \in Calls |-> NilOptions]
  /\ jsonData = [c \in Calls |-> NoBody]
  /\ request = [c \in Calls |-> NoRequest]
  /\ resp = [c \in Calls |-> "none"]

\* the fields of a client NewClient has returned, other than MaxRetries
Constructed ==
  /\ Token = "tok"
  /\ APIURL = DefaultAPIURL
  /\ HTTPClient = HTTPClientOf(FALSE, DefaultTimeout)
  /\ made = "client"
  /\ given = NoInputs

Init ==
  /\ MaxRetries \in RetryChoices
  /\ LastRateLimit = NoRateLimit
  /\ budget = [c \in Calls |-> IF c = 1 THEN 1 ELSE 0]
  /\ scenario = "all"
  /\ Constructed
  /\ InitCalls

(***************************************************************************)
(* Actions                                                                 *)
(***************************************************************************)
\* a faulty variant of Return: the result of the retry session is kept in
\* the client, where every call in progress finds it
Return_shared(c, err) ==
  /\ pc' = [pc EXCEPT ![c] = "done"]
  /\ ret' = [c2 \in Calls |-> err]
  /\ resp' = [resp EXCEPT ![c] = ResponseOf(api[c], err)]
  /\ backoff' = [backoff EXCEPT ![c] = Zero64]
  /\ wake' = [wake EXCEPT ![c] = "none"]

\* The call returns err: the locals of the select are gone.
Return(c, err) ==
  /\ pc' = [pc EXCEPT ![c] = "done"]
  /\ ret' = [ret EXCEPT ![c] = err]
  /\ resp' = [resp EXCEPT ![c] = ResponseOf(api[c], err)]
  /\ backoff' = [backoff EXCEPT ![c] = Zero64]
  /\ wake' = [wake EXCEPT ![c] = "none"]

\* The URL of a further attempt of call c: Send reads c.APIURL in its
\* closure, NotifAI uses the apiURL it derived before its first attempt.
AttemptURL(c) == IF api[c] = "Send" THEN APIURL ELSE request[c].URL

\* a faulty variant of AttemptRequest: a further attempt builds its body
\* again from the options, with an IV of its own
AttemptRequest_rebuilt(c) ==
  NewRequest(Token, AttemptURL(c),
             IF api[c] = "Send" THEN SendBody(options[c], "c3d4") ELSE NotifAIBody(options[c]))

\* The request the closure builds for a further attempt of call c: the
\* jsonData marshalled before the loop, the same URL and headers.
AttemptRequest(c) == NewRequest(Token, AttemptURL(c), jsonData[c])

\* caller c holds a client and is not in a call
CanBegin(c) ==
  /\ made = "client"
  /\ pc[c] \in {"idle", "done"}
  /\ budget[c] > 0

\* Entry of Send / NotifAI up to the first suspension point: the checks of
\* the options, the body, then retryWithBackoff up to the first operation().
\* ivHex is what GenerateIV returns when it is called, "" for its error.
Begin(c, a, opt, c0, ivHex) ==
  /\ CanBegin(c)
  /\ budget' = [budget EXCEPT ![c] = @ - 1]
  /\ api' = [api EXCEPT ![c] = a]
  /\ ctx' = [ctx EXCEPT ![c] = c0]
  /\ cancelledAt' = [cancelledAt EXCEPT ![c] = IF c0 = "active" THEN "never" ELSE "before"]
  /\ attempt' = [attempt EXCEPT ![c] = 0]
  /\ lastErr' = [lastErr EXCEPT ![c] = Nil]
  /\ backoff' = [backoff EXCEPT ![c] = Zero64]
  /\ wake' = [wake EXCEPT ![c] = "none"]
  /\ nWaits' = [nWaits EXCEPT ![c] = 0]
  /\ lastStatus' = [lastStatus EXCEPT ![c] = 0]
  /\ lastOutcome' = [lastOutcome EXCEPT ![c] = NoOutcome]
  /\ rlAtBegin' = [rlAtBegin EXCEPT ![c] = LastRateLimit]
  /\ observed' = [observed EXCEPT ![c] = NotRead]
  /\ options' = [options EXCEPT ![c] = opt]
  /\ IF InvalidOptions(a, opt)
     THEN /\ pc' = [pc EXCEPT ![c] = "done"]
          /\ ret' = [ret EXCEPT ![c] = MkErr("ValidationError", 0, Zero64, "none")]
          /\ nAttempts' = [nAttempts EXCEPT ![c] = 0]
          /\ jsonData' = [jsonData EXCEPT ![c] = NoBody]
          /\ request' = [request EXCEPT ![c] = NoRequest]
     ELSE IF a = "Send" /\ opt.EncryptionPassword # "" /\ ivHex = ""
     THEN /\ pc' = [pc EXCEPT ![c] = "done"]
          /\ ret' = [ret EXCEPT ![c] = MkErr("Error", 0, Zero64, "none")]
          /\ nAttempts' = [nAttempts EXCEPT ![c] = 0]
          /\ jsonData' = [jsonData EXCEPT ![c] = NoBody]
          /\ request' = [request EXCEPT ![c] = NoRequest]
     ELSE IF a = "NotifAI" /\ NotifAIURL(APIURL).panic
     THEN /\ pc' = [pc EXCEPT ![c] = "panic"]
          /\ ret' = [ret EXCEPT ![c] = Nil]
          /\ nAttempts' = [nAttempts EXCEPT ![c] = 0]
          /\ jsonData' = [jsonData EXCEPT ![c] = NotifAIBody(opt)]
          /\ request' = [request EXCEPT ![c] = NoRequest]
     ELSE LET body == IF a = "Send" THEN SendBody(opt, ivHex) ELSE NotifAIBody(opt)
              url == IF a = "Send" THEN APIURL ELSE NotifAIURL(APIURL).url
          IN  /\ jsonData' = [jsonData EXCEPT ![c] = body]
              /\ IF LoopCond(0, MaxRetries)
                 THEN /\ pc' = [pc EXCEPT ![c] = "inflight"]
                      /\ ret' = [ret EXCEPT ![c] = Nil]
                      /\ nAttempts' = [nAttempts EXCEPT ![c] = 1]
                      /\ request' = [request EXCEPT ![c] = NewRequest(Token, url, body)]
                 ELSE /\ pc' = [pc EXCEPT ![c] = "done"]
                      /\ ret' = [ret EXCEPT ![c] = Nil]
                      /\ nAttempts' = [nAttempts EXCEPT ![c] = 0]
                      /\ request' = [request EXCEPT ![c] = NoRequest]
  /\ resp' = [resp EXCEPT ![c] = IF pc'[c] = "done" THEN ResponseOf(a, ret'[c]) ELSE "none"]
  /\ UNCHANGED << clientVars, fixedVars, raceVars >>

\* The options a caller passes to Send: nil, without a title, usable, usable
\* with an empty message ("all"); a usable one or nil ("few"); every
\* combination of the optional fields and of a password ("body"); usable ones
\* with lists of tags ("tags").
SendOptionsIn(s) ==
  LET simple(title, message) ==
        MkOptions(title, message, "", NilTags, "", "", "", "")
  IN  CASE s = "all" -> { NilOptions, simple("", "m"), simple("t", "m"), simple("t", "") }
        [] s = "few" -> { NilOptions, simple("t", "m") }
        [] s = "body" ->
             { NilOptions, simple("", "m") }
               \cup { MkOptions("t", m, ty, tg, img, act, pw, "") :
                        m \in {"", "m"}, ty \in {"", "info"},
                        tg \in {NilTags, TagList(<< << "P", "r", "o", "d" >> >>)},
                        img \in {"", "img"}, act \in {"", "act"}, pw \in {"", "pw"} }
        [] OTHER -> { MkOptions("t", "m", "", tg, "", "", "", "") : tg \in TagInputs }

\* The options a caller passes to NotifAI: nil, without text, usable
NotifAIOptionsIn(s) ==
  LET simple(text, type) == MkOptions("", "", type, NilTags, "", "", "", text)
  IN  CASE s = "few" -> { simple("x", "") }
        [] s = "body" -> { simple("x", ""), simple("x", "info") }
        [] OTHER -> { NilOptions, simple("", ""), simple("x", "") }

\* what GenerateIV can return to a call that encrypts
IVResults(opt) ==
  IF ~opt.nil /\ opt.Title # "" /\ opt.EncryptionPassword # ""
  THEN IVHexes \cup {""}
  ELSE {""}

\* Send(ctx, options)
Send(c) ==
  /\ CanBegin(c)
  /\ \E opt \in SendOptionsIn(scenario), c0 \in {"active"} \cup CtxReasons :
       \E ivHex \in IVResults(opt) :
         Begin(c, "Send", opt, c0, ivHex)

\* NotifAI(ctx, options)
NotifAI(c) ==
  /\ CanBegin(c)
  /\ \E opt \in NotifAIOptionsIn(scenario), c0 \in {"active"} \cup CtxReasons :
       Begin(c, "NotifAI", opt, c0, "")

\* operation() returns, and the loop body runs on to the select or to a
\* return.
OperationReturn(c) ==
  /\ pc[c] = "inflight"
  /\ \E o \in (IF ctx[c] = "active" THEN Outcomes(scenario) ELSE {CtxFailure(ctx[c])}) :
       LET err == OperationErr(o)
       IN  /\ lastOutcome' = [lastOutcome EXCEPT ![c] = o]
           /\ lastStatus' = [lastStatus EXCEPT ![c] = IF o.t = "response" THEN o.status ELSE 0]
           /\ LastRateLimit' = OperationRateLimit(LastRateLimit, o)
           /\ IF StoresRateLimit(o)
              THEN /\ writer' = c
                   /\ before' = [val |-> LastRateLimit, by |-> writer]
              ELSE UNCHANGED raceVars
           /\ IF err = Nil
              THEN /\ Return(c, SuccessResult(lastErr[c]))
                   /\ UNCHANGED << lastErr, nWaits >>
              ELSE /\ lastErr' = [lastErr EXCEPT ![c] = err]
                   /\ IF ~IsErrorRetryable(err)
                      THEN /\ Return(c, err)
                           /\ UNCHANGED nWaits
                      ELSE IF Exhausted(attempt[c], MaxRetries)
                      THEN /\ Return(c, ExhaustedResult(err))
                           /\ UNCHANGED nWaits
                      ELSE \E d \in {Backoff(err, attempt[c])} :
                               /\ backoff' = [backoff EXCEPT ![c] = d]
                               /\ pc' = [pc EXCEPT ![c] = "select"]
                               /\ nWaits' = [nWaits EXCEPT ![c] = @ + 1]
                               /\ \E w \in SelectPoll(ctx[c] # "active", TimerReady(d)) :
                                    wake' = [wake EXCEPT ![c] = w]
                               /\ UNCHANGED << ret, resp >>
  /\ UNCHANGED << MaxRetries, fixedVars, sentVars, request, budget, api, ctx, attempt,
                  nAttempts, rlAtBegin, cancelledAt >>

\* The caller cancels the context, or its deadline expires, while the call
\* is suspended: in a request ("inflight"), in the blocked select ("wait"),
\* or in a select whose timer has already delivered ("woken").
Cancel(c) ==
  /\ pc[c] \in {"inflight", "select"}
  /\ ctx[c] = "active"
  /\ \E reason \in CtxReasons : ctx' = [ctx EXCEPT ![c] = reason]
  /\ IF pc[c] = "select"
     THEN /\ wake' = [wake EXCEPT ![c] = SelectOnCancel(@)]
          /\ cancelledAt' = [cancelledAt EXCEPT ![c] = IF wake[c] = "none" THEN "wait" ELSE "woken"]
     ELSE /\ cancelledAt' = [cancelledAt EXCEPT ![c] = "inflight"]
          /\ UNCHANGED wake
  /\ UNCHANGED << clientVars, fixedVars, raceVars, sentVars, request, resp, budget, pc, api, attempt, lastErr, backoff, ret,
                  nAttempts, nWaits, lastStatus, lastOutcome, rlAtBegin >>

\* The backoff has elapsed: the channel of time.After delivers to the
\* blocked select.
TimerFire(c) ==
  /\ pc[c] = "select"
  /\ wake[c] = "none"
  /\ wake' = [wake EXCEPT ![c] = "timer"]
  /\ UNCHANGED << clientVars, fixedVars, raceVars, sentVars, request, resp, budget, pc, api, ctx, attempt, lastErr, backoff, ret,
                  nAttempts, nWaits, lastStatus, lastOutcome,
                  rlAtBegin, cancelledAt >>

\* case <-ctx.Done(): return ctx.Err()
SelectCtxDone(c) ==
  /\ pc[c] = "select"
  /\ wake[c] = "ctx"
  /\ Return(c, CtxErr(ctx[c]))
  /\ UNCHANGED << clientVars, fixedVars, raceVars, sentVars, request, budget, api, ctx, attempt, lastErr, nAttempts, nWaits,
                  lastStatus, lastOutcome, rlAtBegin, cancelledAt >>

\* a faulty variant of SelectTimer: the loop goes on without waiting for the
\* timer to deliver
SelectTimer_nowait(c) ==
  /\ pc[c] = "select"
  /\ attempt' = [attempt EXCEPT ![c] = @ + 1]
  /\ IF LoopCond(attempt[c] + 1, MaxRetries)
     THEN /\ pc' = [pc EXCEPT ![c] = "inflight"]
          /\ nAttempts' = [nAttempts EXCEPT ![c] = @ + 1]
          /\ backoff' = [backoff EXCEPT ![c] = Zero64]
          /\ wake' = [wake EXCEPT ![c] = "none"]
          /\ request' = [request EXCEPT ![c] = AttemptRequest(c)]
          /\ UNCHANGED << ret, resp >>
     ELSE /\ Return(c, lastErr[c])
          /\ UNCHANGED << nAttempts, request >>
  /\ UNCHANGED << clientVars, fixedVars, raceVars, sentVars, budget, api, ctx, lastErr, nWaits, lastStatus, lastOutcome,
                  rlAtBegin, cancelledAt >>

\* case <-time.After(backoff): attempt++, and the next iteration runs up to
\* its operation(), or the loop ends and lastErr is returned
SelectTimer(c) ==
  /\ pc[c] = "select"
  /\ wake[c] = "timer"
  /\ attempt' = [attempt EXCEPT ![c] = @ + 1]
  /\ IF LoopCond(attempt[c] + 1, MaxRetries)
     THEN /\ pc' = [pc EXCEPT ![c] = "inflight"]
          /\ nAttempts' = [nAttempts EXCEPT ![c] = @ + 1]
          /\ backoff' = [backoff EXCEPT ![c] = Zero64]
          /\ wake' = [wake EXCEPT ![c] = "none"]
          /\ request' = [request EXCEPT ![c] = AttemptRequest(c)]
          /\ UNCHANGED << ret, resp >>
     ELSE /\ Return(c, lastErr[c])
          /\ UNCHANGED << nAttempts, request >>
  /\ UNCHANGED << clientVars, fixedVars, raceVars, sentVars, budget, api, ctx, lastErr, nWaits, lastStatus, lastOutcome,
                  rlAtBegin, cancelledAt >>

\* The fields of a RateLimitInfo published by goroutine `by` as goroutine c
\* can read them. Nothing orders the stores of another goroutine (the zeroing
\* of the new struct, the stores of its fields, the store of the pointer)
\* before the reads of c, so each field is read as written or as zero.
FieldsSeen(c, info, by) ==
  IF info.nil \/ by \in {0, c}
  THEN {info}
  ELSE { [nil |-> FALSE, Limit |-> l, Remaining |-> r, Reset |-> t] :
           l \in {Zero64, info.Limit}, r \in {Zero64, info.Remaining},
           t \in {ZeroTime, info.Reset} }

\* What goroutine c can read through GetRateLimitInfo: the pointer stored
\* last, or, when another goroutine stored it, still the pointer it replaced.
SnapshotsSeen(c) ==
  FieldsSeen(c, LastRateLimit, writer)
    \cup (IF writer \in {0, c} THEN {} ELSE FieldsSeen(c, before.val, before.by))

\* The caller reads the snapshot after its call has returned:
\* info := client.GetRateLimitInfo(), then the fields of *info.
Observe(c) ==
  /\ pc[c] = "done"
  /\ ~observed[c].read
  /\ \E info \in SnapshotsSeen(c) :
       observed' = [observed EXCEPT ![c] =
                      [nil |-> info.nil, Limit |-> info.Limit, Remaining |-> info.Remaining,
                       Reset |-> info.Reset, read |-> TRUE]]
  /\ UNCHANGED << clientVars, fixedVars, raceVars, options, jsonData, request, resp,
                  budget, pc, api, ctx, attempt, lastErr, backoff, wake, ret, nAttempts, nWaits,
                  lastStatus, lastOutcome, rlAtBegin, cancelledAt >>

Next ==
  \E c \in Calls :
    \/ Send(c)
    \/ NotifAI(c)
    \/ OperationReturn(c)
    \/ Cancel(c)
    \/ TimerFire(c)
    \/ SelectCtxDone(c)
    \/ SelectTimer(c)
    \/ Observe(c)

Spec == Init /\ [][Next]_vars

(***************************************************************************)
(* Construction: NewClient on its arguments and environment                *)
(***************************************************************************)
InitNew ==
  /\ given \in [ token : {"", "tok"}, env : EnvChoices, opts : OptionLists(MaxOptions) ]
  /\ made = "none"
  /\ Token = ""
  /\ APIURL = << >>
  /\ HTTPClient = NilHTTPClient
  /\ MaxRetries = 0
  /\ LastRateLimit = NoRateLimit
  /\ budget = [c \in Calls |-> 0]
  /\ scenario = "few"
  /\ InitCalls

\* client := NewClient(token, opts...)
NewClient ==
  /\ made = "none"
  /\ LET r == NewClientResult(given.token, given.env, given.opts)
     IN  IF r.panic # ""
         THEN /\ made' = r.panic
              /\ UNCHANGED << Token, APIURL, HTTPClient, MaxRetries >>
         ELSE /\ made' = "client"
              /\ Token' = r.Token
              /\ APIURL' = r.APIURL
              /\ HTTPClient' = r.HTTPClient
              /\ MaxRetries' = r.MaxRetries
  /\ UNCHANGED << LastRateLimit, scenario, given, raceVars, sentVars, request, resp, budget, pc,
                  api, ctx, attempt, lastErr, backoff, wake, ret, nAttempts, nWaits,
                  lastStatus, lastOutcome, rlAtBegin, cancelledAt >>

SpecNew == InitNew /\ [][NewClient]_vars

(***************************************************************************)
(* One caller making several calls in a row on the same client             *)
(***************************************************************************)
InitSeq ==
  /\ MaxRetries \in 0..SeqRetries
  /\ LastRateLimit = NoRateLimit
  /\ budget = [c \in Calls |-> IF c = 1 THEN MaxCalls ELSE 0]
  /\ scenario = "all"
  /\ Constructed
  /\ InitCalls

SpecSeq == InitSeq /\ [][Next]_vars

(***************************************************************************)
(* Two goroutines, one call each, on the same client                       *)
(***************************************************************************)
InitConc ==
  /\ MaxRetries \in 0..ConcRetries
  /\ LastRateLimit = NoRateLimit
  /\ budget = [c \in Calls |-> 1]
  /\ scenario = "few"
  /\ Constructed
  /\ InitCalls

SpecConc == InitConc /\ [][Next]_vars

(***************************************************************************)
(* One call with every combination of the optional fields of its options   *)
(***************************************************************************)
InitBody ==
  /\ MaxRetries \in 0..BodyRetries
  /\ LastRateLimit = NoRateLimit
  /\ budget = [c \in Calls |-> IF c = 1 THEN 1 ELSE 0]
  /\ scenario = "body"
  /\ Constructed
  /\ InitCalls

SpecBody == InitBody /\ [][Next]_vars

(***************************************************************************)
(* One call on a client whose exported fields were set by the caller:      *)
(* MaxRetries assigned directly, APIURL a non-empty string, which is what  *)
(* WithAPIURL accepts                                                      *)
(***************************************************************************)
\* "/send"
SendPath == << "/", "s", "e", "n", "d" >>

\* "http://h/api", "http://h/", "http://h/send"
URLChoices ==
  { DefaultAPIURL, SendPath,
    << "h", "t", "t", "p", ":", "/", "/", "h", "/", "a", "p", "i" >>,
    << "h", "t", "t", "p", ":", "/", "/", "h", "/" >>,
    << "h", "t", "t", "p", ":", "/", "/", "h", "/", "s", "e", "n", "d" >> }

InitFields ==
  /\ MaxRetries \in -1..FieldRetries
  /\ LastRateLimit = NoRateLimit
  /\ budget = [c \in Calls |-> IF c = 1 THEN 1 ELSE 0]
  /\ scenario = "few"
  /\ Token = "tok"
  /\ APIURL \in URLChoices
  /\ HTTPClient = HTTPClientOf(FALSE, DefaultTimeout)
  /\ made = "client"
  /\ given = NoInputs
  /\ InitCalls

SpecFields == InitFields /\ [][Next]_vars

(***************************************************************************)
(* NormalizeTags on the lists of tags a caller passes to Send              *)
(***************************************************************************)
InitTags ==
  /\ MaxRetries = DefaultMaxRetries
  /\ LastRateLimit = NoRateLimit
  /\ budget = [c \in Calls |-> IF c = 1 THEN 1 ELSE 0]
  /\ scenario = "tags"
  /\ Constructed
  /\ InitCalls

\* Send up to its first attempt: the tags are normalized and put in the body
NextTags == \E c \in Calls : Send(c)

SpecTags == InitTags /\ [][NextTags]_vars

(***************************************************************************)
(* Every request returns, every timer delivers, and a goroutine that can   *)
(* proceed does                                                            *)
(***************************************************************************)
Fairness ==
  \A c \in Calls :
    /\ WF_vars(OperationReturn(c))
    /\ WF_vars(TimerFire(c))
    /\ WF_vars(SelectCtxDone(c))
    /\ WF_vars(SelectTimer(c))

InitFair ==
  /\ MaxRetries \in 0..FairRetries
  /\ LastRateLimit = NoRateLimit
  /\ budget = [c \in Calls |-> IF c = 1 THEN 1 ELSE 0]
  /\ scenario = "all"
  /\ Constructed
  /\ InitCalls

FairSpec == InitFair /\ [][Next]_vars /\ Fairness

(***************************************************************************)
(* Properties                                                              *)
(***************************************************************************)
RetryableTypes == {"NetworkError", "ServerError", "RateLimitError"}

NonRetryableTypes == {"ValidationError", "AuthError", "Error"}

\* C1: one logical call never performs more than MaxRetries + 1 HTTP
\* attempts, whatever the outcomes of its attempts.
C1_AtMostRPlus1Attempts ==
  \A c \in Calls : nAttempts[c] <= MaxRetries + 1

\* a call that used all of its MaxRetries + 1 attempts, with retries enabled
C1_Witness ==
  \E c \in Calls :
    pc[c] = "done" /\ MaxRetries >= 3 /\ nAttempts[c] = MaxRetries + 1

\* C2: an attempt that yields a non-retryable error (Validation, Auth or
\* Generic) ends the call at once with that error: no backoff wait is entered
\* after it and no further attempt starts, whatever retries remain.
C2_NonRetryableReturnsAtOnce ==
  \A c \in Calls :
    lastErr[c].type \in NonRetryableTypes =>
      /\ pc[c] = "done"
      /\ ret[c] = lastErr[c]
      /\ nWaits[c] = nAttempts[c] - 1

\* a 401 on the first attempt of a call that had retries left
C2_Witness ==
  \E c \in Calls :
    /\ pc[c] = "done" /\ ret[c].type = "AuthError" /\ ret[c].StatusCode = 401
    /\ nAttempts[c] = 1 /\ nWaits[c] = 0 /\ MaxRetries >= 3

\* C3: a call whose attempts all failed with retryable errors, its context
\* never done, made exactly MaxRetries + 1 attempts (MaxRetries waits, so
\* none with MaxRetries = 0) and returns the error of its last attempt.
C3_ExhaustedReturnsLastError ==
  \A c \in Calls :
    (pc[c] = "done" /\ ctx[c] = "active" /\ ret[c] # Nil
       /\ lastErr[c].type \in RetryableTypes) =>
      /\ nAttempts[c] = MaxRetries + 1
      /\ nWaits[c] = MaxRetries
      /\ ret[c] = lastErr[c]

\* retries exhausted on a 503 after at least three waits
C3_Witness ==
  \E c \in Calls :
    /\ pc[c] = "done" /\ ctx[c] = "active" /\ MaxRetries >= 3
    /\ ret[c].type = "ServerError" /\ lastStatus[c] = 503
    /\ nAttempts[c] = MaxRetries + 1

\* C4: once an attempt has succeeded the call is over and returns nil: it
\* made one attempt more than it had retryable failures (waits), and no
\* attempt is started after the successful one.
C4_SuccessEndsTheCall ==
  \A c \in Calls :
    (lastStatus[c] >= 1 /\ lastStatus[c] < 400) =>
      /\ pc[c] = "done"
      /\ ret[c] = Nil
      /\ nAttempts[c] = nWaits[c] + 1
      /\ nAttempts[c] <= MaxRetries + 1

\* a 500 followed by a 200: success on the second attempt
C4_Witness ==
  \E c \in Calls :
    /\ pc[c] = "done" /\ ret[c] = Nil /\ lastStatus[c] = 200
    /\ lastErr[c].type = "ServerError" /\ nAttempts[c] = 2 /\ MaxRetries = 3

\* C5: once the context has been cancelled while the call was blocked in its
\* backoff wait, no further attempt is started, and the call returns the
\* context's error, not the HTTP error it was about to retry.
C5_CancelDuringWait ==
  \A c \in Calls :
    cancelledAt[c] = "wait" =>
      /\ pc[c] \in {"select", "done"}
      /\ nAttempts[c] = nWaits[c]
      /\ pc[c] = "done" => ret[c] = CtxErr(ctx[c])

\* a call cancelled in the wait after a 500, which returned context.Canceled
C5_Witness ==
  \E c \in Calls :
    /\ cancelledAt[c] = "wait" /\ pc[c] = "done"
    /\ ret[c] = CtxErr("context.Canceled") /\ lastErr[c].type = "ServerError"

\* C6: a call whose context was cancelled, or whose deadline expired, while
\* it was waiting or had a request in flight returns the context's own
\* error, never a NetworkError or another typed error.
C6_CancelYieldsCtxErr ==
  \A c \in Calls :
    (pc[c] = "done" /\ cancelledAt[c] \in {"inflight", "wait"}) =>
      ret[c] = CtxErr(ctx[c])

\* min(2^n, 30) seconds, as a duration
Pow2Seconds(n) == IF n >= 5 THEN MaxBackoff ELSE Mul64(W(2 ^ n), Second)

\* min(5 * 2^n, 30) seconds, as a duration
FivePow2Seconds(n) == IF n >= 3 THEN MaxBackoff ELSE Mul64(W(5 * 2 ^ n), Second)

\* C7: the wait after a Network or Server error of attempt n is
\* min(2^n, 30) seconds, for every n below MaxRetries.
C7_ServerBackoff ==
  \A c \in Calls :
    (pc[c] = "select" /\ lastErr[c].type \in {"NetworkError", "ServerError"}) =>
      backoff[c] = Pow2Seconds(attempt[c])

\* C8: the wait after a 429 without a usable Retry-After of attempt n is
\* min(5 * 2^n, 30) seconds, for every n below MaxRetries.
C8_RateLimitBackoff ==
  \A c \in Calls :
    (pc[c] = "select" /\ lastErr[c].type = "RateLimitError"
       /\ lastErr[c].RetryAfter = Zero64) =>
      backoff[c] = FivePow2Seconds(attempt[c])

\* C9: the wait after a 429 with a positive Retry-After hint h is min(h, 30)
\* seconds, whatever the attempt.
C9_RetryAfterBackoff ==
  \A c \in Calls :
    (pc[c] = "select" /\ lastErr[c].type = "RateLimitError"
       /\ Greater64(lastErr[c].RetryAfter, Zero64)) =>
      backoff[c] = IF Greater64(lastErr[c].RetryAfter, W(30))
                   THEN MaxBackoff
                   ELSE Mul64(lastErr[c].RetryAfter, Second)

\* C10: every wait chosen between two attempts is non-negative and at most
\* 30 seconds.
C10_BackoffInRange ==
  \A c \in Calls :
    pc[c] = "select" =>
      /\ ~IsNeg(backoff[c])
      /\ ~Greater64(backoff[c], MaxBackoff)

\* a Retry-After header that gives no hint: missing, not a number, zero or
\* negative
UnusableRetryAfter(h) ==
  h = NoHeader \/ ~Parsed[h].ok \/ ~Greater64(Parsed[h].val, Zero64)

\* C11: a 429 whose Retry-After header is missing, non-numeric, zero or
\* negative yields an error with RetryAfter = 0, and the wait after it is
\* the default min(5 * 2^n, 30) seconds.
C11_UnusableRetryAfterFallsBack ==
  \A c \in Calls :
    (pc[c] = "select" /\ lastOutcome[c].t = "response" /\ lastOutcome[c].status = 429
       /\ UnusableRetryAfter(lastOutcome[c].RetryAfter)) =>
      /\ lastErr[c].type = "RateLimitError"
      /\ lastErr[c].RetryAfter = Zero64
      /\ backoff[c] = FivePow2Seconds(attempt[c])

\* the parsing half of C11 alone: the unusable header is read as absent
C11_ParsedAsAbsent ==
  \A c \in Calls :
    (lastOutcome[c].t = "response" /\ lastOutcome[c].status = 429
       /\ UnusableRetryAfter(lastOutcome[c].RetryAfter)) =>
      /\ lastErr[c].type = "RateLimitError"
      /\ lastErr[c].RetryAfter = Zero64

\* the error kind the mapping gives a status of 400 or more
KindOfStatus(status) ==
  CASE status = 400 -> "ValidationError"
    [] status \in {401, 403} -> "AuthError"
    [] status = 429 -> "RateLimitError"
    [] status >= 500 -> "ServerError"
    [] OTHER -> "Error"

\* an attempt that ended without a response
TransportFailures == {"createFail", "doFail", "readFail"} \cup CtxReasons

\* C12: a failed attempt gives the error kind fixed by its outcome: 400
\* Validation, 401 and 403 Authentication, 429 RateLimit, 5xx Server, any
\* other status of 400 or more Generic, each carrying the response status;
\* a failure without a response gives Network with no status.
C12_ErrorKindByStatus ==
  \A c \in Calls :
    LET o == lastOutcome[c]
    IN  /\ o.t \in TransportFailures =>
              lastErr[c].type = "NetworkError" /\ lastErr[c].StatusCode = 0
        /\ (o.t = "response" /\ o.status >= 400) =>
              lastErr[c].type = KindOfStatus(o.status) /\ lastErr[c].StatusCode = o.status

\* a 403 surfaced as an authentication error carrying 403
C12_Witness ==
  \E c \in Calls :
    /\ pc[c] = "done"
    /\ lastOutcome[c].t = "response" /\ lastOutcome[c].status = 403
    /\ ret[c].type = "AuthError" /\ ret[c].StatusCode = 403

\* a status outside 2xx that is none of 400, 401, 403, 429 and 5xx
OtherNon2xx(status) ==
  /\ status \notin 200..299
  /\ status \notin {400, 401, 403, 429}
  /\ status < 500

\* C13: a response whose status is outside 2xx and none of 400, 401, 403,
\* 429, 5xx (1xx and 3xx such as 304 included) ends the call at once with a
\* Generic error of that status, and a call returns success only when its
\* final attempt received a 2xx.
C13_OnlyA2xxSucceeds ==
  \A c \in Calls :
    LET o == lastOutcome[c]
    IN  /\ (o.t = "response" /\ OtherNon2xx(o.status)) =>
              /\ pc[c] = "done"
              /\ ret[c].type = "Error" /\ ret[c].StatusCode = o.status
        /\ (pc[c] = "done" /\ ret[c] = Nil /\ nAttempts[c] >= 1) =>
              o.t = "response" /\ o.status \in 200..299

\* the half of C13 that concerns statuses of 400 or more
C13_Other4xxIsGeneric ==
  \A c \in Calls :
    LET o == lastOutcome[c]
    IN  (o.t = "response" /\ OtherNon2xx(o.status) /\ o.status >= 400) =>
          /\ pc[c] = "done"
          /\ ret[c].type = "Error" /\ ret[c].StatusCode = o.status

\* C14: whether an error is retried depends on its kind alone: Network,
\* Server and RateLimit errors always are, Validation, Authentication and
\* Generic errors never are, whatever status they carry, and an error of
\* none of these kinds is not; only a retryable error is waited on.
C14_RetryableByKindAlone ==
  \A c \in Calls :
    /\ lastErr[c] # Nil => IsErrorRetryable(lastErr[c]) = (lastErr[c].type \in RetryableTypes)
    /\ ret[c] # Nil => IsErrorRetryable(ret[c]) = (ret[c].type \in RetryableTypes)
    /\ pc[c] = "select" => lastErr[c].type \in RetryableTypes

\* a rate-limit error, whose status 429 is a client-error status, is waited on
C14_Witness ==
  \E c \in Calls :
    /\ pc[c] = "select"
    /\ lastErr[c].type = "RateLimitError" /\ lastErr[c].StatusCode = 429
    /\ IsErrorRetryable(lastErr[c])

\* a RateLimit-* header whose value parses: a non-negative integer
ParsesRateLimit(h) == h # NoHeader /\ Parsed[h].ok /\ ~IsNeg(Parsed[h].val)

\* the attempt of c that ended its call with success on a 2xx response
Succeeded2xx(c) ==
  /\ pc[c] = "done" /\ ret[c] = Nil
  /\ lastOutcome[c].t = "response" /\ lastOutcome[c].status \in 200..299

\* the snapshot built from the headers of response o: zero for a header
\* that is missing or does not parse
SnapshotOf(o) ==
  [nil |-> FALSE,
   Limit |-> IF ParsesRateLimit(o.Limit) THEN Parsed[o.Limit].val ELSE Zero64,
   Remaining |-> IF ParsesRateLimit(o.Remaining) THEN Parsed[o.Remaining].val ELSE Zero64,
   Reset |-> IF ParsesRateLimit(o.Reset)
             THEN [zero |-> FALSE, unix |-> Parsed[o.Reset].val]
             ELSE ZeroTime]

\* C15: after a successful attempt whose response carries at least one
\* RateLimit-* header with a value that parses (0 included), the snapshot
\* is the one built from that response.
C15_ParsedHeaderReplacesSnapshot ==
  \A c \in Calls :
    LET o == lastOutcome[c]
    IN  (Succeeded2xx(c) /\ (ParsesRateLimit(o.Limit) \/ ParsesRateLimit(o.Remaining)
                               \/ ParsesRateLimit(o.Reset))) =>
          LastRateLimit = SnapshotOf(o)

\* the same with a positive limit or remaining count, or any reset time
C15_PositiveHeaderReplacesSnapshot ==
  \A c \in Calls :
    LET o == lastOutcome[c]
    IN  (Succeeded2xx(c)
           /\ \/ ParsesRateLimit(o.Limit) /\ Greater64(Parsed[o.Limit].val, Zero64)
              \/ ParsesRateLimit(o.Remaining) /\ Greater64(Parsed[o.Remaining].val, Zero64)
              \/ ParsesRateLimit(o.Reset)) =>
          LastRateLimit = SnapshotOf(o)

\* C16: after a successful attempt whose response carries none of the
\* three headers, or only values that do not parse, the snapshot is exactly
\* what it was when the call started.
C16_NoHeaderKeepsSnapshot ==
  \A c \in Calls :
    LET o == lastOutcome[c]
    IN  (Succeeded2xx(c) /\ ~ParsesRateLimit(o.Limit) /\ ~ParsesRateLimit(o.Remaining)
           /\ ~ParsesRateLimit(o.Reset)) =>
          LastRateLimit = rlAtBegin[c]

\* a call found a snapshot, succeeded on a response whose three headers do
\* not parse, and the snapshot is still there
C16_Witness ==
  \E c \in Calls :
    /\ Succeeded2xx(c)
    /\ lastOutcome[c].Limit # NoHeader /\ ~ParsesRateLimit(lastOutcome[c].Limit)
    /\ ~ParsesRateLimit(lastOutcome[c].Remaining) /\ ~ParsesRateLimit(lastOutcome[c].Reset)
    /\ ~rlAtBegin[c].nil
    /\ LastRateLimit = rlAtBegin[c]

\* the response that ended the call of c with success carries some, but not
\* all, of the three headers with a value that parses
PartialHeaders(c) ==
  LET o == lastOutcome[c]
      n == Cardinality({h \in {"Limit", "Remaining", "Reset"} : ParsesRateLimit(o[h])})
  IN  Succeeded2xx(c) /\ n \in {1, 2}

\* the fields of the snapshot whose header is missing from o are zero
MissingAreZero(o) ==
  /\ o.Limit = NoHeader => LastRateLimit.Limit = Zero64
  /\ o.Remaining = NoHeader => LastRateLimit.Remaining = Zero64
  /\ o.Reset = NoHeader => LastRateLimit.Reset = ZeroTime

\* C17: after a successful response that carries only some of the three
\* headers, the snapshot holds zero for each missing header, whatever the
\* previous snapshot held.
C17_PartialHeadersZeroTheRest ==
  \A c \in Calls : PartialHeaders(c) => MissingAreZero(lastOutcome[c])

\* the same for a response that replaced the snapshot: nothing of the
\* previous snapshot is kept
C17_ReplacedSnapshotNeverMerges ==
  \A c \in Calls :
    (PartialHeaders(c) /\ LastRateLimit = SnapshotOf(lastOutcome[c])) =>
      MissingAreZero(lastOutcome[c])

\* the step ends a call of c with success on a 2xx response that carries at
\* least one RateLimit-* header whose value parses
ProcessesCarrier(c) ==
  /\ pc[c] = "inflight"
  /\ Succeeded2xx(c)'
  /\ \E h \in {"Limit", "Remaining", "Reset"} : ParsesRateLimit(lastOutcome'[c][h])

\* C18: GetRateLimitInfo returns nil until a successful response carrying
\* rate-limit headers has been processed, and from then on the snapshot of
\* the most recent such response, whichever of Send and NotifAI received
\* it: a step that processes such a response makes its snapshot the value
\* returned, and no other step changes the value returned.
C18_InfoIsLatestCarriedSnapshot ==
  [][ \A c \in Calls :
        IF ProcessesCarrier(c)
        THEN GetRateLimitInfo' = SnapshotOf(lastOutcome'[c])
        ELSE (pc'[c] # pc[c] \/ lastOutcome'[c] # lastOutcome[c]) =>
               GetRateLimitInfo' = GetRateLimitInfo ]_vars

\* C19: the attempts of a call run one after the other: while an attempt
\* is in flight every earlier attempt has returned and been waited on, and
\* a further attempt starts only from the wait that followed the previous
\* attempt, once its timer has delivered.
C19_AttemptsInSequence ==
  [][ \A c \in Calls :
        /\ pc[c] = "inflight" => nAttempts[c] = nWaits[c] + 1
        /\ (pc[c] \notin {"idle", "done"} /\ nAttempts'[c] # nAttempts[c]) =>
              /\ pc[c] = "select" /\ wake[c] = "timer"
              /\ nWaits[c] = nAttempts[c]
              /\ nAttempts'[c] = nAttempts[c] + 1
              /\ pc'[c] = "inflight" ]_vars

\* a third attempt in flight, after two waits
C19_Witness ==
  \E c \in Calls :
    pc[c] = "inflight" /\ nAttempts[c] = 3 /\ nWaits[c] = 2 /\ ctx[c] = "active"

\* the outcome call c returned is a success, the typed error of its last
\* attempt, or the error of its context
TerminalOutcome(c) ==
  \/ ret[c] = Nil /\ OperationErr(lastOutcome[c]) = Nil
  \/ /\ ret[c] = lastErr[c]
     /\ ret[c] = OperationErr(lastOutcome[c])
     /\ ret[c].type \in RetryableTypes \cup NonRetryableTypes
  \/ ret[c] = CtxErr(ctx[c]) /\ ctx[c] \in CtxReasons

\* C20: a call that made an attempt returns one terminal outcome, a
\* success, the typed error of its last attempt or a cancellation, and, if
\* every request returns and every wait ends, a call that has started
\* terminates.
C20_OneOutcomeAndTermination ==
  /\ [](\A c \in Calls : (pc[c] = "done" /\ nAttempts[c] >= 1) => TerminalOutcome(c))
  /\ \A c \in Calls : (pc[c] \in {"inflight", "select"}) ~> (pc[c] = "done")

\* a call that went through three attempts and two waits and then returned
\* the server error of its last attempt
C20_Witness ==
  \E c \in Calls :
    /\ pc[c] = "done" /\ nAttempts[c] = 3 /\ nWaits[c] = 2
    /\ ret[c].type = "ServerError" /\ ret[c] = lastErr[c]

(***************************************************************************)
(* Two goroutines on one client                                            *)
(***************************************************************************)
\* the snapshot the closure stores for the response of outcome o
StoredFor(o) == OperationRateLimit(NoRateLimit, o)

\* caller c has read this snapshot
ReadAs(c, info) ==
  /\ observed[c].read
  /\ observed[c].nil = info.nil
  /\ observed[c].Limit = info.Limit
  /\ observed[c].Remaining = info.Remaining
  /\ observed[c].Reset = info.Reset

\* C21: with calls running concurrently on one client no call gets stuck,
\* and every value of the snapshot a caller can observe is none or the
\* snapshot built wholly from one successful response, the stored value
\* being that of the update applied last.
C21_ObservedSnapshotIsWhole ==
  /\ \A c \in Calls : pc[c] = "select" => wake[c] \in {"none", "ctx", "timer"}
  /\ writer # 0 => LastRateLimit = StoredFor(lastOutcome[writer])
  /\ \A c \in Calls :
       observed[c].read =>
         \/ ReadAs(c, NoRateLimit)
         \/ \E c2 \in Calls :
              /\ StoresRateLimit(lastOutcome[c2])
              /\ ReadAs(c, StoredFor(lastOutcome[c2]))

\* the value held by the client is itself whole, and is the one stored last
C21_StoredSnapshotIsWhole ==
  /\ writer # 0 => LastRateLimit = StoredFor(lastOutcome[writer])
  /\ writer = 0 => LastRateLimit = NoRateLimit
  /\ \A c \in Calls :
       (observed[c].read /\ writer \in {0, c}) => ReadAs(c, LastRateLimit)

\* the retry session of caller c and what it returned
Session(c) ==
  << pc[c], api[c], ctx[c], attempt[c], lastErr[c], backoff[c], wake[c], ret[c],
     nAttempts[c], nWaits[c], lastStatus[c], lastOutcome[c], cancelledAt[c] >>

\* C22: the retry session belongs to its call. A step changes the session
\* of one call at most and never MaxRetries (the snapshot is the only client
\* state a call writes); the wait a call enters is computed from its own
\* latest outcome and its own attempt counter, and what it returns while
\* its context is active is the result of its own latest attempt.
C22_SessionIsCallLocal ==
  [][ /\ MaxRetries' = MaxRetries
      /\ \E c \in Calls : \A c2 \in Calls \ {c} : Session(c2)' = Session(c2)
      /\ \A c \in Calls :
           /\ pc'[c] = "select" =>
                backoff'[c] = Backoff(OperationErr(lastOutcome'[c]), attempt'[c])
           /\ (pc'[c] = "done" /\ nAttempts'[c] >= 1 /\ ctx'[c] = "active") =>
                ret'[c] = OperationErr(lastOutcome'[c]) ]_vars

\* one call has returned success while the other waits after a failure of
\* its own
C22_Witness ==
  /\ pc[1] = "done" /\ ret[1] = Nil /\ nAttempts[1] = 1
  /\ pc[2] = "select" /\ nWaits[2] = 1 /\ lastErr[2].type = "ServerError"

HasOption(name) == \E i \in 1..Len(given.opts) : given.opts[i].name = name

\* the last option of that name passed to NewClient
LastOption(name) ==
  LET at == { i \in 1..Len(given.opts) : given.opts[i].name = name }
  IN  given.opts[CHOOSE i \in at : \A j \in at : j <= i]

\* an environment value that is a number, as Atoi reads it
Numeric(v) == v # NoHeader /\ Parsed[v].ok

\* the token, the retry count and, for a client that keeps its own HTTP
\* client, the timeout are those of the argument or option, else of the
\* environment when its value is usable, else the default
ResolvedByPrecedence ==
  LET env == given.env
  IN  /\ Token = IF given.token # "" THEN given.token ELSE env.PINCHO_TOKEN
      /\ MaxRetries =
           IF HasOption("WithMaxRetries") THEN LastOption("WithMaxRetries").maxRetries
           ELSE IF Numeric(env.PINCHO_MAX_RETRIES) /\ ~IsNeg(Parsed[env.PINCHO_MAX_RETRIES].val)
           THEN ToInt(Parsed[env.PINCHO_MAX_RETRIES].val)
           ELSE 3
      /\ ~HasOption("WithHTTPClient") =>
           HTTPClient.Timeout =
             IF HasOption("WithTimeout") THEN LastOption("WithTimeout").timeout
             ELSE IF Numeric(env.PINCHO_TIMEOUT)
                       /\ Greater64(Parsed[env.PINCHO_TIMEOUT].val, Zero64)
             THEN Mul64(Parsed[env.PINCHO_TIMEOUT].val, Second)
             ELSE Mul64(W(30), Second)

\* C25: NewClient resolves token, timeout and max retries by the precedence
\* argument or option, then environment variable, then default (30 s, 3),
\* ignoring an environment value that is not a number, a timeout that is
\* not positive and a negative retry count; so the client it returns has
\* MaxRetries >= 0 and a positive timeout.
C25_ResolvedAndInRange ==
  made = "client" =>
    /\ ResolvedByPrecedence
    /\ MaxRetries >= 0
    /\ ~HasOption("WithHTTPClient") => Greater64(HTTPClient.Timeout, Zero64)

\* the same when PINCHO_TIMEOUT, if a number, is one whose nanoseconds fit
\* 63 bits
C25_ResolvedAndInRangeBelowOverflow ==
  (made = "client"
     /\ given.env.PINCHO_TIMEOUT # << "9", "2", "2", "3", "3", "7", "2", "0", "3", "7" >>) =>
    /\ ResolvedByPrecedence
    /\ MaxRetries >= 0
    /\ ~HasOption("WithHTTPClient") => Greater64(HTTPClient.Timeout, Zero64)

\* what the claim calls a misconfiguration
Misconfigured ==
  \/ given.token = "" /\ given.env.PINCHO_TOKEN = ""
  \/ \E i \in 1..Len(given.opts) :
       LET opt == given.opts[i]
       IN  \/ opt.name = "WithAPIURL" /\ opt.url = << >>
           \/ opt.name = "WithHTTPClient" /\ opt.client.nil
           \/ opt.name = "WithTimeout" /\ ~Greater64(opt.timeout, Zero64)
           \/ opt.name = "WithMaxRetries" /\ opt.maxRetries < 0

\* C26: NewClient returns no client when the token is empty and
\* PINCHO_TOKEN unset, or an option carries an empty API URL, a nil HTTP
\* client, a timeout of zero or less, or a negative retry count; it returns
\* one otherwise, a retry count of 0 included; and no call has begun on a
\* client that was not returned.
C26_MisconfigurationRejected ==
  /\ made # "none" => (made = "client" <=> ~Misconfigured)
  /\ made # "client" => \A c \in Calls : pc[c] = "idle" /\ nAttempts[c] = 0

\* NewClient has panicked on a timeout of zero passed after a retry count
\* of 0
C26_Witness ==
  /\ made = "pincho: timeout must be positive"
  /\ given.opts = << WithMaxRetries(0), WithTimeout(Zero64) >>

(***************************************************************************)
(* What goes over the wire                                                 *)
(***************************************************************************)
\* the keys of the body that hold a string
StringFields == {"title", "message", "type", "imageURL", "actionURL", "iv", "text"}

\* an attempt of c has been made: request[c] is what it carried
Transmitted(c) == nAttempts[c] >= 1

\* C27: the body has an iv field exactly when EncryptionPassword is not
\* empty; without a password the fields are the plaintext given; and no
\* field of any body is the password.
C27_PasswordStaysLocal ==
  \A c \in Calls :
    (Transmitted(c) /\ api[c] = "Send") =>
      LET b == request[c].body
          o == options[c]
      IN  /\ b.iv.kind # "absent" <=> o.EncryptionPassword # ""
          /\ o.EncryptionPassword = "" =>
               /\ b.title = Plain(o.Title) /\ b.message = Plain(o.Message)
               /\ b.imageURL = (IF o.ImageURL = "" THEN Absent ELSE Plain(o.ImageURL))
               /\ b.actionURL = (IF o.ActionURL = "" THEN Absent ELSE Plain(o.ActionURL))
          /\ o.EncryptionPassword # "" =>
               \A f \in StringFields :
                 ~(b[f].kind = "plain" /\ b[f].text = o.EncryptionPassword)

\* the second attempt of an encrypted Send is in flight
C27_Witness ==
  /\ pc[1] = "inflight" /\ nAttempts[1] = 2 /\ api[1] = "Send"
  /\ options[1].EncryptionPassword = "pw"
  /\ request[1].body.iv = Plain("0a0b")

\* the output of EncryptMessage for this plaintext under the password of
\* the call and the IV named by the body
CipherOf(c, plaintext) ==
  [kind |-> "cipher", text |-> plaintext,
   key |-> [derived |-> TRUE, password |-> options[c].EncryptionPassword],
   iv |-> [bytes |-> request[c].body.iv.text]]

C29_EveryAttemptIsAuthorized ==
  \A c \in Calls :
    Transmitted(c) =>
      /\ request[c].Authorization = << "Bearer ", Token >>
      /\ request[c].UserAgent = << "pincho-go/", "1.0.0-alpha.7" >>
      /\ \A f \in StringFields :
           ~(request[c].body[f].kind = "plain" /\ request[c].body[f].text = Token)

\* the second attempt of a NotifAI is in flight
C29_Witness ==
  /\ pc[1] = "inflight" /\ nAttempts[1] = 2 /\ api[1] = "NotifAI"
  /\ request[1].Authorization = << "Bearer ", "tok" >>

(***************************************************************************)
(* Tags                                                                    *)
(***************************************************************************)
\* a tag of the input, trimmed and lower-cased
Cleaned(tag) == ToLower(TrimSpace(tag))

C31_AtMostTenTags ==
  \A c \in Calls :
    (api[c] = "Send" /\ nAttempts[c] >= 1) => Len(request[c].body.tags.list) <= 10

(***************************************************************************)
(* Retry-After on a 5xx, and the snapshot across failed attempts           *)
(***************************************************************************)
\* the latest attempt of c received a 5xx that carries a Retry-After header
Got5xxWithRetryAfter(c) ==
  /\ lastOutcome[c].t = "response" /\ lastOutcome[c].status >= 500
  /\ lastOutcome[c].RetryAfter # NoHeader

\* C32: a Retry-After header on a 5xx response has no effect on the wait,
\* which stays min(2^n, 30) seconds.
C32_RetryAfterOn5xxKeepsPow2Wait ==
  \A c \in Calls :
    (pc[c] = "select" /\ Got5xxWithRetryAfter(c)) =>
      backoff[c] = Pow2Seconds(attempt[c])

\* the wait after a 5xx with a Retry-After header is the wait the same
\* response gets without the header
C32_RetryAfterOn5xxIgnored ==
  \A c \in Calls :
    (pc[c] = "select" /\ Got5xxWithRetryAfter(c)) =>
      /\ lastErr[c].RetryAfter = Zero64
      /\ backoff[c] =
           Backoff(OperationErr([lastOutcome[c] EXCEPT !.RetryAfter = NoHeader]), attempt[c])

\* C33: an attempt that ends in a transport failure or in a status of 400
\* or more, its RateLimit-* headers notwithstanding, leaves the snapshot as
\* it was before the attempt.
C33_FailedAttemptKeepsSnapshot ==
  [][ \A c \in Calls :
        (pc[c] = "inflight" /\ pc'[c] # "inflight"
           /\ (lastOutcome'[c].t # "response" \/ lastOutcome'[c].status >= 400)) =>
          LastRateLimit' = LastRateLimit ]_vars

\* a 503 that carries RateLimit-Limit: 50 has been received on a client
\* that holds another snapshot
C33_Witness ==
  /\ pc[1] \in {"select", "done"}
  /\ lastOutcome[1].status = 503 /\ lastOutcome[1].Limit = << "5", "0" >>
  /\ ~LastRateLimit.nil /\ LastRateLimit.Limit # W(50)

\* C34: a call writes the snapshot only in the step that ends it with
\* success, hence once at most, and a call that ended with an error or a
\* cancellation has left the snapshot as it found it.
C34_OnlyTheFinalSuccessWrites ==
  [][ /\ LastRateLimit' # LastRateLimit =>
           \E c \in Calls : pc[c] = "inflight" /\ pc'[c] = "done" /\ ret'[c] = Nil
      /\ \A c \in Calls :
           (pc'[c] = "done" /\ ret'[c] # Nil) => LastRateLimit' = rlAtBegin'[c] ]_vars

\* the second call on a client that holds a snapshot was cancelled while it
\* waited after a failed attempt
C34_Witness ==
  /\ pc[1] = "done" /\ cancelledAt[1] = "wait" /\ nAttempts[1] = 1
  /\ ret[1] = CtxErr(ctx[1])
  /\ ~LastRateLimit.nil /\ LastRateLimit = rlAtBegin[1]

\* C35: all attempts of one call send the same request. While a call is in
\* progress no step changes its marshalled body (IV, ciphertexts and
\* normalized tags included), and the request of every further attempt
\* (URL, headers, body) equals the request of the attempt before it.
C35_AttemptsSendTheSameRequest ==
  [][ \A c \in Calls :
        pc[c] \in {"inflight", "select"} =>
          /\ jsonData'[c] = jsonData[c]
          /\ request'[c] = request[c]
          /\ request[c].body = jsonData[c] ]_vars

\* the second attempt of an encrypted Send with tags is in flight
C35_Witness ==
  /\ pc[1] = "inflight" /\ api[1] = "Send" /\ nAttempts[1] = 2
  /\ options[1].EncryptionPassword = "pw" /\ ~options[1].Tags.nil
  /\ request[1].body.iv = IVField("pw", "0a0b")
  /\ request[1].body.title.kind = "cipher"
  /\ request[1].URL = DefaultAPIURL

\* C36: for every value of the exported field MaxRetries, a negative one
\* included, a call that returns success made at least one attempt and its
\* last attempt received a response with a status below 400.
C36_SuccessHadAnAttempt ==
  \A c \in Calls :
    (pc[c] = "done" /\ ret[c] = Nil) =>
      /\ nAttempts[c] >= 1
      /\ lastOutcome[c].t = "response"
      /\ lastOutcome[c].status < 400

\* C36, where the loop runs at least once: with MaxRetries >= 0 a call
\* that returns success made an attempt that received a status below 400.
C36_SuccessHadAnAttemptFromZero ==
  MaxRetries >= 0 => C36_SuccessHadAnAttempt

\* C37: NotifAI returns a non-nil response if and only if it returns a nil
\* error: (nil, err) for a validation error, a terminal error or a
\* cancellation, and a response with a nil error on success, a status below
\* 400 whose body is not JSON included.
C37_ResponseIffNilError ==
  \A c \in Calls :
    (pc[c] = "done" /\ api[c] = "NotifAI") =>
      /\ resp[c] \in {"nil", "response"}
      /\ resp[c] = "response" <=> ret[c] = Nil
      /\ (nAttempts[c] >= 1 /\ lastOutcome[c].t = "response" /\ lastOutcome[c].status < 400
            /\ cancelledAt[c] = "never") => resp[c] = "response"

\* a NotifAI call answered 200 with a body that is not JSON has returned
\* its response and a nil error
C37_Witness ==
  /\ pc[1] = "done" /\ api[1] = "NotifAI" /\ nAttempts[1] >= 1
  /\ lastOutcome[1].status = 200 /\ ~lastOutcome[1].json
  /\ resp[1] = "response" /\ ret[1] = Nil

\* a NotifAI call cancelled while it waited has returned (nil, ctx.Err())
C37_WitnessCancelled ==
  /\ pc[1] = "done" /\ api[1] = "NotifAI" /\ cancelledAt[1] = "wait"
  /\ resp[1] = "nil" /\ ret[1] = CtxErr(ctx[1])

\* the endpoint of NotifAI for a base URL: one trailing "/send" removed,
\* one "/" between what is left and "notifai"
EndpointFor(url) ==
  LET n == Len(url)
      base == IF n >= 5 /\ SubSeq(url, n - 4, n) = SendPath THEN SubSeq(url, 1, n - 5) ELSE url
      slashed == IF Len(base) > 0 /\ base[Len(base)] = "/" THEN base ELSE base \o << "/" >>
  IN  slashed \o << "n", "o", "t", "i", "f", "a", "i" >>

\* C38: for every non-empty APIURL, "/send" included, NotifAI derives its
\* endpoint without faulting: no call ends in a run-time panic, and every
\* attempt of NotifAI goes to the base URL without one trailing "/send",
\* one "/", then "notifai".
C38_EndpointDerivedWithoutFault ==
  \A c \in Calls :
    /\ pc[c] # "panic"
    /\ (api[c] = "NotifAI" /\ nAttempts[c] >= 1) => request[c].URL = EndpointFor(APIURL)

\* C38 for the base URLs that are not exactly "/send"
C38_EndpointDerivedUnlessBareSend ==
  APIURL # SendPath => C38_EndpointDerivedWithoutFault

\* NotifAI on a client whose APIURL is "/send" has faulted before any attempt
C38_FaultOnBareSend ==
  APIURL = SendPath /\ api[1] = "NotifAI" /\ pc[1] = "panic" /\ nAttempts[1] = 0

\* C39: NormalizeTags is idempotent: for every list of tags a caller
\* passes, normalizing the normalized list gives the normalized list, and
\* so the tags that Send transmits are a fixed point of NormalizeTags.
C39_NormalizeTagsIsIdempotent ==
  \A c \in Calls :
    (api[c] = "Send" /\ nAttempts[c] >= 1) =>
      /\ NormalizeTags(NormalizeTags(options[c].Tags)) = NormalizeTags(options[c].Tags)
      /\ NormalizeTags(jsonData[c].tags) = jsonData[c].tags

\* the tags " prod<tab>", "Prod" and "b_1-" were normalized to "prod" then
\* "b_1-", a list that differs from the one passed
C39_Witness ==
  /\ api[1] = "Send" /\ nAttempts[1] = 1
  /\ Len(options[1].Tags.list) = 3
  /\ options[1].Tags.list[1] = << " ", "p", "r", "o", "d", "\t" >>
  /\ options[1].Tags.list[2] = << "P", "r", "o", "d" >>
  /\ jsonData[1].tags.list = << << "p", "r", "o", "d" >>, << "b", "_", "1", "-" >> >>
====
